---- MODULE Spec2Model ----
(***************************************************************************)
(* Vrijstad storefront API (src/main.py, src/schemas.py): the catalog,     *)
(* seed, checkout and Midtrans webhook handlers over the product, order    *)
(* and payment collections of the document database.  A handler is cut at  *)
(* its database operations and at the outbound gateway call, the points    *)
(* where requests handled concurrently interleave.                         *)
(***************************************************************************)
EXTENDS Integers, Sequences, FiniteSets, TLC

VARIABLES product, order, payment, nextId, serverKey, sent, req

vars == <<product, order, payment, nextId, serverKey, sent, req>>

(***************************************************************************)
(* Bounds of the model.                                                    *)
(***************************************************************************)
\* requests admitted in one behaviour
MaxRequests == 2
\* line items of one checkout request
MaxItems == 2
\* largest quantity a client submits (0 is submitted too)
MaxQty == 2
\* a float price is counted in steps of 1/FracSteps rupiah
FracSteps == 2

\* the workers that handle requests at the same time
Clients == {1, 2}

\* Python's None, for the Optional[str] fields
None == "<None>"

(***************************************************************************)
(* Text and identifiers.  A text is a sequence of characters; an ObjectId  *)
(* is its 12 bytes.                                                        *)
(***************************************************************************)
ObjectIdBytes == 12

LowerHex == <<"0", "1", "2", "3", "4", "5", "6", "7", "8", "9", "a", "b", "c", "d", "e", "f">>

UpperHex == <<"0", "1", "2", "3", "4", "5", "6", "7", "8", "9", "A", "B", "C", "D", "E", "F">>

HexChars == {LowerHex[k] : k \in 1..16} \cup {UpperHex[k] : k \in 1..16}

HexValue == [ch \in HexChars |-> (CHOOSE k \in 1..16 : LowerHex[k] = ch \/ UpperHex[k] = ch) - 1]

IsHexChar(ch) == ch \in HexChars

HexVal(ch) == HexValue[ch]

\* bson.ObjectId.is_valid on a str: 24 hexadecimal characters, either case
IsValidId(s) == Len(s) = 2 * ObjectIdBytes /\ \A i \in 1..Len(s) : IsHexChar(s[i])

\* bson.ObjectId(str): the 12 bytes the 24 hexadecimal characters spell
ParseObjectId(s) == [i \in 1..ObjectIdBytes |-> 16 * HexVal(s[2 * i - 1]) + HexVal(s[2 * i])]

\* str(ObjectId): 24 lower-case hexadecimal characters
StrOfId(o) == [i \in 1..(2 * ObjectIdBytes) |->
                 IF i % 2 = 1 THEN LowerHex[(o[(i + 1) \div 2] \div 16) + 1]
                              ELSE LowerHex[(o[i \div 2] % 16) + 1]]

\* the text in upper case, as a client may spell an identifier
UpperText(s) == [i \in 1..Len(s) |->
                   IF IsHexChar(s[i]) THEN UpperHex[HexVal(s[i]) + 1] ELSE s[i]]

\* the n-th identifier the database generates
NewObjectId(n) == [i \in 1..ObjectIdBytes |->
                     IF i = 1 THEN 171 ELSE IF i = ObjectIdBytes THEN n % 256 ELSE 0]

\* oid(): the parsed identifier, or the HTTP 400 it raises
oid_ok(id_str) == IsValidId(id_str)

oid(id_str) == ParseObjectId(id_str)

(***************************************************************************)
(* The document database.  A collection is the sequence of its documents   *)
(* in insertion order.                                                     *)
(***************************************************************************)
\* dict.get(key): the value, or None when the key is absent
DictGet(d, k) == IF k \in DOMAIN d THEN d[k] ELSE None

\* "$set": overwrite the named fields, leave the others untouched
SetFields(doc, upd) == [k \in (DOMAIN doc) \cup (DOMAIN upd) |->
                          IF k \in DOMAIN upd THEN upd[k] ELSE doc[k]]

\* create_document: the collection with the document appended under a new identifier
InsertDoc(coll, fields, n) == Append(coll, SetFields(fields, [_id |-> NewObjectId(n)]))

\* the identifier create_document returns, in its string form
InsertedId(n) == StrOfId(NewObjectId(n))

\* the update applied to every document of the collection
UpdateOneById_every(coll, id, upd) == [i \in 1..Len(coll) |-> SetFields(coll[i], upd)]

\* update_one({"_id": id}, {"$set": upd}): the first matching document only
UpdateOneById(coll, id, upd) ==
    LET hits == {i \in 1..Len(coll) : coll[i]._id = id}
    IN  IF hits = {} THEN coll
        ELSE LET first == CHOOSE i \in hits : \A j \in hits : i <= j
             IN  [coll EXCEPT ![first] = SetFields(coll[first], upd)]

\* the update applied to the first matching document only
UpdateManyByOrderId_first(coll, text, upd) ==
    LET hits == {i \in 1..Len(coll) : coll[i].order_id = text}
    IN  IF hits = {} THEN coll
        ELSE LET first == CHOOSE i \in hits : \A j \in hits : i <= j
             IN  [coll EXCEPT ![first] = SetFields(coll[first], upd)]

\* the update, except that a document already carrying the status is set back to pending
UpdateManyByOrderId_toggle(coll, text, upd) ==
    [i \in 1..Len(coll) |->
       IF coll[i].order_id # text THEN coll[i]
       ELSE IF coll[i].status = upd.status THEN SetFields(coll[i], [upd EXCEPT !.status = "pending"])
       ELSE SetFields(coll[i], upd)]

\* update_many({"order_id": text}, {"$set": upd}): every matching document
UpdateManyByOrderId(coll, text, upd) ==
    [i \in 1..Len(coll) |-> IF coll[i].order_id = text THEN SetFields(coll[i], upd) ELSE coll[i]]

\* find({"_id": {"$in": ids}}) folded into products_map, keyed by str(doc["_id"]):
\* a later document of the same key replaces an earlier one
ProductsMap(coll, ids) ==
    LET wanted == {ids[j] : j \in 1..Len(ids)}
        hits == {i \in 1..Len(coll) : coll[i]._id \in wanted}
        last(id) == CHOOSE i \in hits : coll[i]._id = id /\ \A j \in hits : coll[j]._id = id => j <= i
    IN  [key \in {StrOfId(coll[i]._id) : i \in hits} |-> coll[last(ParseObjectId(key))]]

\* datetime.now(timezone.utc), read off the count of requests admitted so far
Now == sent

(***************************************************************************)
(* Schemas (src/schemas.py) and the demonstration dataset.                 *)
(***************************************************************************)
\* a float amount of whole rupiah
Rp(n) == n * FracSteps

\* int(x) of a non-negative float: truncation
IntOf(x) == x \div FracSteps

PaymentStatuses == {"pending", "settlement", "capture", "failed", "expire", "cancel"}

OrderPaymentStatuses == {"pending", "paid", "failed", "canceled"}

ShippingMethods == {"standard", "express"}

Variant(size, stock) == [size |-> size, stock |-> stock]

ProductDoc(name, description, price, image, category, collection, variants, tags) ==
    [name |-> name, description |-> description, price |-> price, image |-> image,
     category |-> category, collection |-> collection, variants |-> variants,
     tags |-> tags, is_active |-> TRUE]

demo_products ==
    << ProductDoc("Bandung Crest Tee", "Oversized tee with Vrijstad crest. 240gsm cotton.",
                  Rp(249000), "https://images.unsplash.com/photo-1542291026-7eec264c27ff?q=80&w=1600&auto=format&fit=crop", "tees", "AW24",
                  <<Variant("S", 20), Variant("M", 20), Variant("L", 20), Variant("XL", 10)>>,
                  <<"crest", "oversized">>),
       ProductDoc("Freedom Hoodie", "Heavyweight hoodie with embroidery.",
                  Rp(549000), "https://images.unsplash.com/photo-1516826957135-700dedea698c?q=80&w=1600&auto=format&fit=crop", "hoodies", "AW24",
                  <<Variant("M", 15), Variant("L", 15), Variant("XL", 8)>>,
                  <<"hoodie", "embroidery">>),
       ProductDoc("Motion Cargo Pant", "Relaxed fit cargo with tapered leg.",
                  Rp(499000), "https://images.unsplash.com/photo-1519741497674-611481863552?q=80&w=1600&auto=format&fit=crop", "bottoms", "Core",
                  <<Variant("S", 10), Variant("M", 12), Variant("L", 10)>>,
                  <<"cargo", "street">>) >>

\* OrderItem(...): the fields, or a ValidationError when quantity < 1 or price < 0
OrderItem_ok(quantity, price) == quantity >= 1 /\ price >= 0

OrderItem(product_id, doc, size, quantity, price) ==
    [product_id |-> product_id, name |-> doc.name, image |-> doc.image,
     size |-> size, quantity |-> quantity, price |-> price]

OrderDoc(payload, order_items, total) ==
    [user_name |-> payload.name, user_email |-> payload.email, address |-> payload.address,
     shipping_method |-> IF payload.shipping_method \in ShippingMethods
                         THEN payload.shipping_method ELSE "standard",
     items |-> order_items, total_amount |-> total,
     payment_status |-> "pending", created_at |-> None]

PaymentDoc(order_id, transaction_id, redirect_url, snap_token) ==
    [order_id |-> order_id, provider |-> "midtrans", transaction_id |-> transaction_id,
     status |-> "pending", redirect_url |-> redirect_url, snap_token |-> snap_token]

(***************************************************************************)
(* Responses.                                                              *)
(***************************************************************************)
HttpOk(body) == [status |-> 200, body |-> body]

\* detail: the message, in the pieces it is formatted from
HttpError(code, detail) == [status |-> code, detail |-> detail]

InvalidIdFormat == HttpError(400, <<"Invalid ID format">>)

ProductNotFound(product_id) == HttpError(400, <<"Product ", product_id, " not found">>)

\* an exception no handler catches: FastAPI answers 500
InternalError(what) == HttpError(500, <<what>>)

(***************************************************************************)
(* Checkout: compute_totals.                                               *)
(***************************************************************************)
\* compute_totals with the quantity left out of the total
RECURSIVE TotalsLoop_unit(_, _, _, _, _)
TotalsLoop_unit(items, products_map, i, order_items, total) ==
    IF i > Len(items) THEN [ok |-> TRUE, order_items |-> order_items, total |-> total]
    ELSE LET ci == items[i]
         IN  IF ci.product_id \notin DOMAIN products_map
             THEN [ok |-> FALSE, error |-> ProductNotFound(ci.product_id)]
             ELSE LET doc == products_map[ci.product_id]
                      price == doc.price
                  IN  IF ~OrderItem_ok(ci.quantity, price)
                      THEN [ok |-> FALSE, error |-> InternalError("ValidationError")]
                      ELSE TotalsLoop_unit(items, products_map, i + 1,
                                           Append(order_items,
                                                  OrderItem(ci.product_id, doc, ci.size, ci.quantity, price)),
                                           total + price)

\* compute_totals passing over the items it cannot resolve instead of raising
RECURSIVE TotalsLoop_skip(_, _, _, _, _)
TotalsLoop_skip(items, products_map, i, order_items, total) ==
    IF i > Len(items) THEN [ok |-> TRUE, order_items |-> order_items, total |-> total]
    ELSE LET ci == items[i]
         IN  IF ci.product_id \notin DOMAIN products_map
             THEN TotalsLoop_skip(items, products_map, i + 1, order_items, total)
             ELSE LET doc == products_map[ci.product_id]
                      price == doc.price
                  IN  IF ~OrderItem_ok(ci.quantity, price)
                      THEN [ok |-> FALSE, error |-> InternalError("ValidationError")]
                      ELSE TotalsLoop_skip(items, products_map, i + 1,
                                           Append(order_items,
                                                  OrderItem(ci.product_id, doc, ci.size, ci.quantity, price)),
                                           total + price * ci.quantity)

\* the loop of compute_totals from item i on: the order items and the total,
\* or the error the first offending item raises
RECURSIVE TotalsLoop(_, _, _, _, _)
TotalsLoop(items, products_map, i, order_items, total) ==
    IF i > Len(items) THEN [ok |-> TRUE, order_items |-> order_items, total |-> total]
    ELSE LET ci == items[i]
         IN  IF ci.product_id \notin DOMAIN products_map
             THEN [ok |-> FALSE, error |-> ProductNotFound(ci.product_id)]
             ELSE LET doc == products_map[ci.product_id]
                      price == doc.price
                  IN  IF ~OrderItem_ok(ci.quantity, price)
                      THEN [ok |-> FALSE, error |-> InternalError("ValidationError")]
                      ELSE TotalsLoop(items, products_map, i + 1,
                                      Append(order_items,
                                             OrderItem(ci.product_id, doc, ci.size, ci.quantity, price)),
                                      total + price * ci.quantity)

\* compute_totals parsing only the first product_id before the lookup
compute_totals_first(items, coll) ==
    IF Len(items) > 0 /\ ~oid_ok(items[1].product_id)
    THEN [ok |-> FALSE, error |-> InvalidIdFormat]
    ELSE LET wellformed == SelectSeq(items, LAMBDA ci : oid_ok(ci.product_id))
             product_ids == [i \in 1..Len(wellformed) |-> oid(wellformed[i].product_id)]
         IN  TotalsLoop(items, ProductsMap(coll, product_ids), 1, <<>>, 0)

\* compute_totals: every product_id is parsed, then the one lookup, then the loop
compute_totals(items, coll) ==
    IF \E i \in 1..Len(items) : ~oid_ok(items[i].product_id)
    THEN [ok |-> FALSE, error |-> InvalidIdFormat]
    ELSE LET product_ids == [i \in 1..Len(items) |-> oid(items[i].product_id)]
         IN  TotalsLoop(items, ProductsMap(coll, product_ids), 1, <<>>, 0)

\* the header built whether or not a server key is set
midtrans_auth_header_unchecked(server_key) ==
    [k \in {"Authorization", "Content-Type"} |->
       IF k = "Authorization" THEN <<"Basic ", server_key, ":">> ELSE "application/json"]

\* midtrans_auth_header(): empty without a server key
midtrans_auth_header(server_key) ==
    IF server_key = "" THEN [k \in {} |-> None]
    ELSE [k \in {"Authorization", "Content-Type"} |->
            IF k = "Authorization" THEN <<"Basic ", server_key, ":">> ELSE "application/json"]

\* a or b, on Optional[str]
PyOr(a, b) == IF a = None \/ a = "" THEN b ELSE a

\* the try block without the fallback of transaction_id to the token
GatewayResult_notoken(outcome) ==
    IF outcome.ok
    THEN [snap_token |-> DictGet(outcome.data, "token"),
          redirect_url |-> DictGet(outcome.data, "redirect_url"),
          transaction_id |-> DictGet(outcome.data, "transaction_id")]
    ELSE [snap_token |-> None, redirect_url |-> None, transaction_id |-> None]

\* what the try block leaves in (snap_token, redirect_url, transaction_id)
GatewayResult(outcome) ==
    IF outcome.ok
    THEN [snap_token |-> DictGet(outcome.data, "token"),
          redirect_url |-> DictGet(outcome.data, "redirect_url"),
          transaction_id |-> PyOr(DictGet(outcome.data, "transaction_id"),
                                  DictGet(outcome.data, "token"))]
    ELSE [snap_token |-> None, redirect_url |-> None, transaction_id |-> None]

\* redirect_url, snap_token and transaction_id before the gateway step
NoGateway == [snap_token |-> None, redirect_url |-> None, transaction_id |-> None]

\* no request was sent to the gateway
NoCall == [called |-> FALSE]

\* the gateway was called and answered, or the call raised
Called(outcome) == IF outcome.ok THEN [called |-> TRUE, ok |-> TRUE, data |-> outcome.data]
                   ELSE [called |-> TRUE, ok |-> FALSE]

\* the table with "cancel" mapped to a spelling the Order schema does not have
status_map_misspelt(transaction_status) ==
    CASE transaction_status = "settlement" -> "paid"
      [] transaction_status = "capture" -> "paid"
      [] transaction_status = "pending" -> "pending"
      [] transaction_status = "deny" -> "failed"
      [] transaction_status = "cancel" -> "cancelled"
      [] transaction_status = "expire" -> "failed"
      [] transaction_status = "failure" -> "failed"
      [] OTHER -> "pending"

\* the webhook's status_map.get(transaction_status, "pending")
status_map(transaction_status) ==
    CASE transaction_status = "settlement" -> "paid"
      [] transaction_status = "capture" -> "paid"
      [] transaction_status = "pending" -> "pending"
      [] transaction_status = "deny" -> "failed"
      [] transaction_status = "cancel" -> "canceled"
      [] transaction_status = "expire" -> "failed"
      [] transaction_status = "failure" -> "failed"
      [] OTHER -> "pending"

(***************************************************************************)
(* Catalog: list_products and get_product.  Product texts are strings; a   *)
(* character of a string is its substring of length one.                   *)
(***************************************************************************)
UpperAlpha == "ABCDEFGHIJKLMNOPQRSTUVWXYZ"

LowerAlpha == "abcdefghijklmnopqrstuvwxyz"

CharAt(text, i) == SubSeq(text, i, i)

LowerOf == [ch \in {CharAt(UpperAlpha, k) : k \in 1..Len(UpperAlpha)} |->
              CharAt(LowerAlpha, CHOOSE k \in 1..Len(UpperAlpha) : CharAt(UpperAlpha, k) = ch)]

\* "$options": "i": a letter stands for both of its cases
Fold(ch) == IF ch \in DOMAIN LowerOf THEN LowerOf[ch] ELSE ch

\* the database compiles the pattern: an unclosed group is no regular expression
PatternOk(q) == \A k \in 1..Len(q) : CharAt(q, k) # "("

\* the pattern, made of literal characters and of ".", matches at position i
MatchAt(q, text, i) ==
    \A k \in 1..Len(q) :
        \/ CharAt(q, k) = "."
        \/ Fold(CharAt(q, k)) = Fold(CharAt(text, i + k - 1))

\* {"$regex": q, "$options": "i"} on a field: an unanchored search; an array field
\* matches when one of its elements does, a null field never
RegexSearch(q, value) ==
    IF value = None THEN FALSE
    ELSE \E i \in 1..(Len(value) - Len(q) + 1) : MatchAt(q, value, i)

RegexSearchAny(q, values) == \E j \in 1..Len(values) : RegexSearch(q, values[j])

\* an Optional[str] parameter is applied when it is given and not empty
Given(param) == param # None /\ param # ""

\* page < 1 becomes 1
EffectivePage(page) == IF page < 1 THEN 1 ELSE page

\* the limit brought to the nearest end of the range
EffectiveLimit_clamped(limit) == IF limit < 1 THEN 1 ELSE IF limit > 100 THEN 100 ELSE limit

\* limit outside [1, 100] becomes 12
EffectiveLimit(limit) == IF limit < 1 \/ limit > 100 THEN 12 ELSE limit

\* filter_query applied to one document
FilterMatches(doc, params) ==
    /\ doc.is_active = TRUE
    /\ Given(params.q) =>
         \/ RegexSearch(params.q, doc.name)
         \/ RegexSearch(params.q, doc.description)
         \/ RegexSearchAny(params.q, doc.tags)
    /\ Given(params.category) => doc.category = params.category
    /\ Given(params.collection) => doc.collection = params.collection
    /\ Given(params.size) => \E v \in 1..Len(doc.variants) : doc.variants[v].size = params.size

\* find(filter_query): the matching documents in insertion order
RECURSIVE FindAll(_, _)
FindAll(coll, params) ==
    IF coll = <<>> THEN <<>>
    ELSE IF FilterMatches(Head(coll), params)
         THEN <<Head(coll)>> \o FindAll(Tail(coll), params)
         ELSE FindAll(Tail(coll), params)

\* count_documents(filter_query)
CountDocuments(coll, params) == Cardinality({i \in 1..Len(coll) : FilterMatches(coll[i], params)})

\* cursor.skip(n).limit(m)
SkipLimit(docs, n, m) ==
    LET last == IF n + m < Len(docs) THEN n + m ELSE Len(docs)
    IN  SubSeq(docs, n + 1, last)

\* serialize(doc): "_id" leaves, "id" carries its string form
serialize(doc) ==
    [k \in (DOMAIN doc \ {"_id"}) \cup {"id"} |-> IF k = "id" THEN StrOfId(doc._id) ELSE doc[k]]

\* find_one({"_id": id}): the first document of that identifier, or none (<<>>)
FindOneById(coll, id) ==
    LET hits == {i \in 1..Len(coll) : coll[i]._id = id}
    IN  IF hits = {} THEN <<>>
        ELSE <<coll[CHOOSE i \in hits : \A j \in hits : i <= j]>>

(***************************************************************************)
(* What clients and the gateway send.                                      *)
(***************************************************************************)
\* the largest generated identifier a checkout item names
MaxRefId == 2

\* a text that is no identifier
BadId == <<"n", "o", "t", "-", "a", "n", "-", "i", "d">>

\* NewObjectId(0) is never generated: a well-formed identifier of no document
UnknownId == StrOfId(NewObjectId(0))

ProductIdInputs ==
    {StrOfId(NewObjectId(k)) : k \in 0..MaxRefId}
      \cup {UpperText(StrOfId(NewObjectId(1))), BadId}

ItemInputs == [product_id : ProductIdInputs, size : {"M"}, quantity : 0..MaxQty]

ItemLists == UNION {[1..n -> ItemInputs] : n \in 0..MaxItems}

ShippingInputs == {"express"}

CheckoutRequests ==
    [name : {"Ayu"}, email : {"ayu@example.com"}, address : {"Jl. Braga 1, Bandung"},
     shipping_method : ShippingInputs, items : ItemLists]

\* the JSON object res.json() yields: Snap answers with token and redirect_url
\* together or with neither; transaction_id may come with either
GatewayValue == [token |-> "snap-token", redirect_url |-> "https://app.sandbox.midtrans.com/snap/v2/vtweb/snap-token",
                 transaction_id |-> "txn-1"]

GatewayKeysets == {K \cup T : K \in {{}, {"token", "redirect_url"}}, T \in {{}, {"transaction_id"}}}

GatewayOutcomes ==
    {[ok |-> FALSE]}
      \cup {[ok |-> TRUE, data |-> [k \in K |-> GatewayValue[k]]] : K \in GatewayKeysets}

\* transaction_status values: the seven of the table and one it does not know
StatusInputs == {"settlement", "capture", "pending", "deny", "cancel", "expire", "failure", "refund"}

\* order_id values: the stored orders' identifiers as stored and in upper case,
\* an identifier of no order, a text that is no identifier, the empty text
OrderIdInputs ==
    {StrOfId(order[i]._id) : i \in 1..Len(order)}
      \cup {UpperText(StrOfId(order[i]._id)) : i \in 1..Len(order)}
      \cup {UnknownId, BadId, <<>>}

\* a webhook body: not JSON, JSON that is no object, or an object with either field absent
WebhookObjects ==
    {[k \in {} |-> None]}
      \cup {[order_id |-> o] : o \in OrderIdInputs}
      \cup {[transaction_status |-> t] : t \in StatusInputs}
      \cup {[order_id |-> o, transaction_status |-> t] : o \in OrderIdInputs, t \in StatusInputs}

WebhookBodies ==
    {[kind |-> "invalid"], [kind |-> "array"]}
      \cup {[kind |-> "object", obj |-> b] : b \in WebhookObjects}

\* query parameters of GET /api/products; None stands for a parameter left out
ListParams(q, category, size, collection, page, limit) ==
    [q |-> q, category |-> category, size |-> size, collection |-> collection,
     page |-> page, limit |-> limit]

\* the listings sent next to the writing requests: the plain one, and a filtered
\* one whose page and limit are both out of range
ListInputs ==
    {ListParams(None, None, None, None, 1, 12), ListParams("tee", "tees", "M", None, 0, 150)}

PageInputs == {-3, 0, 1, 2, 3}

LimitInputs == {-5, 0, 1, 2, 12, 50, 100, 101, 150}

\* search texts: none, the empty one, words in either case, patterns with "." and "("
SearchInputs == {None, "", "tee", "HOOD", ".", "("}

\* every page and limit without a filter, every filter on the first page, and a
\* search paged one product at a time
ListingQueries ==
    {ListParams(None, None, None, None, page, limit) : page \in PageInputs, limit \in LimitInputs}
      \cup {ListParams(q, category, size, collection, 1, 12) :
              q \in SearchInputs, category \in {None, "tees"}, size \in {None, "M"},
              collection \in {None, "AW24"}}
      \cup {ListParams("tee", None, None, None, page, 1) : page \in PageInputs}

(***************************************************************************)
(* Initial states: the database empty, or holding the products an earlier  *)
(* run seeded; the server key set or not.                                  *)
(***************************************************************************)
Idle == [pc |-> "idle"]

SeededProducts ==
    InsertDoc(InsertDoc(InsertDoc(<<>>, demo_products[1], 1), demo_products[2], 2), demo_products[3], 3)

ServerKeys == {"", "SB-Mid-server-KEY"}

Init ==
    /\ \/ product = <<>> /\ nextId = 1
       \/ product = SeededProducts /\ nextId = Len(demo_products) + 1
    /\ order = <<>>
    /\ payment = <<>>
    /\ serverKey \in ServerKeys
    /\ sent = 0
    /\ req = [c \in Clients |-> Idle]

\* a handler's return value is delivered before any other step is taken
NoneReturning == \A d \in Clients : req[d].pc # "done"

\* a request is handed to the first free worker
Free(c) ==
    /\ NoneReturning
    /\ req[c].pc = "idle"
    /\ \A d \in Clients : d < c => req[d].pc # "idle"
    /\ sent < MaxRequests

Admit(c) == Free(c) /\ sent' = sent + 1

\* the handler of client c stands at step pc
At(c, pc) == NoneReturning /\ req[c].pc = pc

(***************************************************************************)
(* POST /api/seed                                                          *)
(***************************************************************************)
\* seeding without the guard on the count
SeedCount_unguarded(c) ==
    /\ Admit(c)
    /\ req' = [req EXCEPT ![c] = [op |-> "seed", pc |-> "seed_insert", ids |-> <<>>]]
    /\ UNCHANGED <<product, order, payment, nextId, serverKey>>

SeedCount(c) ==
    /\ Admit(c)
    /\ LET count == Len(product)
       IN  req' = [req EXCEPT ![c] =
                     IF count > 0
                     THEN [op |-> "seed", pc |-> "done",
                           response |-> HttpOk([message |-> "Already seeded", count |-> count])]
                     ELSE [op |-> "seed", pc |-> "seed_insert", ids |-> <<>>]]
    /\ UNCHANGED <<product, order, payment, nextId, serverKey>>

SeedInsert(c) ==
    /\ At(c, "seed_insert")
    /\ LET p == demo_products[Len(req[c].ids) + 1]
           ids == Append(req[c].ids, InsertedId(nextId))
       IN  /\ product' = InsertDoc(product, p, nextId)
           /\ nextId' = nextId + 1
           /\ req' = [req EXCEPT ![c] =
                        IF Len(ids) < Len(demo_products)
                        THEN [op |-> "seed", pc |-> "seed_insert", ids |-> ids]
                        ELSE [op |-> "seed", pc |-> "done",
                              response |-> HttpOk([message |-> "Seeded", count |-> Len(ids),
                                                   ids |-> ids])]]
    /\ UNCHANGED <<order, payment, serverKey, sent>>

(***************************************************************************)
(* POST /api/checkout                                                      *)
(***************************************************************************)
\* the request arrives: compute_totals, with its one batched product lookup
CheckoutBegin(c, payload) ==
    /\ Admit(c)
    /\ LET t == compute_totals(payload.items, product)
       IN  req' = [req EXCEPT ![c] =
                     IF t.ok
                     THEN [op |-> "checkout", pc |-> "insert_order", payload |-> payload,
                           order_items |-> t.order_items, computed_total |-> t.total]
                     ELSE [op |-> "checkout", pc |-> "done", payload |-> payload,
                           response |-> t.error]]
    /\ UNCHANGED <<product, order, payment, nextId, serverKey>>

\* the Order insert taking one piece off the stock of every variant of the ordered products
CheckoutInsertOrder_stock(c) ==
    /\ At(c, "insert_order")
    /\ LET r == req[c]
           order_doc == OrderDoc(r.payload, r.order_items, r.computed_total)
           ordered(doc) == \E k \in 1..Len(r.order_items) :
                               r.order_items[k].product_id = StrOfId(doc._id)
           headers == midtrans_auth_header(serverKey)
           sold(doc) == SetFields(doc, [variants |->
                            [v \in 1..Len(doc.variants) |->
                               Variant(doc.variants[v].size, doc.variants[v].stock - 1)]])
       IN  /\ order' = InsertDoc(order, order_doc, nextId)
           /\ product' = [i \in 1..Len(product) |->
                            IF ordered(product[i]) THEN sold(product[i]) ELSE product[i]]
           /\ nextId' = nextId + 1
           /\ req' = [req EXCEPT ![c] =
                        IF DOMAIN headers # {}
                        THEN [op |-> "checkout", pc |-> "gateway", payload |-> r.payload,
                              order_items |-> r.order_items, computed_total |-> r.computed_total,
                              order_id |-> InsertedId(nextId)]
                        ELSE [op |-> "checkout", pc |-> "insert_payment", payload |-> r.payload,
                              order_items |-> r.order_items, computed_total |-> r.computed_total,
                              order_id |-> InsertedId(nextId), reply |-> NoCall, gw |-> NoGateway]]
    /\ UNCHANGED <<payment, serverKey, sent>>

\* create_document("order", order_doc), then the auth header decides on the gateway call
CheckoutInsertOrder(c) ==
    /\ At(c, "insert_order")
    /\ LET r == req[c]
           order_doc == OrderDoc(r.payload, r.order_items, r.computed_total)
           headers == midtrans_auth_header(serverKey)
       IN  /\ order' = InsertDoc(order, order_doc, nextId)
           /\ nextId' = nextId + 1
           /\ req' = [req EXCEPT ![c] =
                        IF DOMAIN headers # {}
                        THEN [op |-> "checkout", pc |-> "gateway", payload |-> r.payload,
                              order_items |-> r.order_items, computed_total |-> r.computed_total,
                              order_id |-> InsertedId(nextId)]
                        ELSE [op |-> "checkout", pc |-> "insert_payment", payload |-> r.payload,
                              order_items |-> r.order_items, computed_total |-> r.computed_total,
                              order_id |-> InsertedId(nextId), reply |-> NoCall, gw |-> NoGateway]]
    /\ UNCHANGED <<product, payment, serverKey, sent>>

\* requests.post to the Snap endpoint and res.json(): a response, or an exception swallowed
CheckoutGateway(c, outcome) ==
    /\ At(c, "gateway")
    /\ LET r == req[c]
       IN  req' = [req EXCEPT ![c] =
                     [op |-> "checkout", pc |-> "insert_payment", payload |-> r.payload,
                      order_items |-> r.order_items, computed_total |-> r.computed_total,
                      order_id |-> r.order_id, reply |-> Called(outcome),
                      gw |-> GatewayResult(outcome)]]
    /\ UNCHANGED <<product, order, payment, nextId, serverKey, sent>>

\* the payment recorded only when the gateway gave a session token
CheckoutInsertPayment_lost(c) ==
    /\ At(c, "insert_payment")
    /\ LET r == req[c]
           pay_doc == PaymentDoc(r.order_id, r.gw.transaction_id, r.gw.redirect_url, r.gw.snap_token)
       IN  /\ payment' = IF r.gw.snap_token = None THEN payment ELSE InsertDoc(payment, pay_doc, nextId)
           /\ nextId' = nextId + 1
           /\ req' = [req EXCEPT ![c] =
                        [op |-> "checkout", pc |-> "done", payload |-> r.payload,
                         reply |-> r.reply,
                         response |-> HttpOk([order_id |-> r.order_id,
                                              total_amount |-> IntOf(r.computed_total),
                                              payment |-> [provider |-> "midtrans",
                                                           redirect_url |-> r.gw.redirect_url,
                                                           snap_token |-> r.gw.snap_token]])]]
    /\ UNCHANGED <<product, order, serverKey, sent>>

\* create_document("payment", pay_doc) and the response
CheckoutInsertPayment(c) ==
    /\ At(c, "insert_payment")
    /\ LET r == req[c]
           pay_doc == PaymentDoc(r.order_id, r.gw.transaction_id, r.gw.redirect_url, r.gw.snap_token)
       IN  /\ payment' = InsertDoc(payment, pay_doc, nextId)
           /\ nextId' = nextId + 1
           /\ req' = [req EXCEPT ![c] =
                        [op |-> "checkout", pc |-> "done", payload |-> r.payload,
                         reply |-> r.reply,
                         response |-> HttpOk([order_id |-> r.order_id,
                                              total_amount |-> IntOf(r.computed_total),
                                              payment |-> [provider |-> "midtrans",
                                                           redirect_url |-> r.gw.redirect_url,
                                                           snap_token |-> r.gw.snap_token]])]]
    /\ UNCHANGED <<product, order, serverKey, sent>>

(***************************************************************************)
(* POST /api/midtrans/webhook                                              *)
(***************************************************************************)
\* a present order_id taken for one even when it is the empty text
Truthy_present(obj, k) == k \in DOMAIN obj

\* if order_id: a present, non-empty order_id
Truthy(obj, k) == k \in DOMAIN obj /\ obj[k] # <<>>

\* the request arrives: the body is parsed, the status mapped, the Order updated
WebhookBegin(c, body) ==
    /\ Admit(c)
    /\ IF body.kind = "invalid"
       THEN /\ req' = [req EXCEPT ![c] = [op |-> "webhook", pc |-> "done", body |-> body,
                                           response |-> InternalError("JSONDecodeError")]]
            /\ order' = order
       ELSE IF body.kind # "object"
       THEN /\ req' = [req EXCEPT ![c] = [op |-> "webhook", pc |-> "done", body |-> body,
                                           response |-> InternalError("AttributeError")]]
            /\ order' = order
       ELSE LET transaction_status == DictGet(body.obj, "transaction_status")
                new_status == status_map(transaction_status)
            IN  IF ~Truthy(body.obj, "order_id")
                THEN /\ req' = [req EXCEPT ![c] = [op |-> "webhook", pc |-> "done", body |-> body,
                                                    response |-> HttpOk([received |-> TRUE])]]
                     /\ order' = order
                ELSE IF ~oid_ok(body.obj.order_id)
                THEN /\ req' = [req EXCEPT ![c] = [op |-> "webhook", pc |-> "done", body |-> body,
                                                    response |-> InvalidIdFormat]]
                     /\ order' = order
                ELSE /\ order' = UpdateOneById(order, oid(body.obj.order_id),
                                               [payment_status |-> new_status, updated_at |-> Now])
                     /\ req' = [req EXCEPT ![c] = [op |-> "webhook", pc |-> "update_payments",
                                                    body |-> body]]
    /\ UNCHANGED <<product, payment, nextId, serverKey>>

\* db["payment"].update_many and the acknowledgement
WebhookUpdatePayments(c) ==
    /\ At(c, "update_payments")
    /\ LET obj == req[c].body.obj
       IN  payment' = UpdateManyByOrderId(payment, obj.order_id,
                                          [status |-> DictGet(obj, "transaction_status"),
                                           updated_at |-> Now])
    /\ req' = [req EXCEPT ![c] = [op |-> "webhook", pc |-> "done", body |-> req[c].body,
                                   response |-> HttpOk([received |-> TRUE])]]
    /\ UNCHANGED <<product, order, nextId, serverKey, sent>>

(***************************************************************************)
(* GET /api/products and GET /api/products/{product_id}                    *)
(***************************************************************************)
\* the request arrives: page and limit are normalised, the filter is built and
\* count_documents runs
ListCount(c, params) ==
    /\ Admit(c)
    /\ LET page == EffectivePage(params.page)
           limit == EffectiveLimit(params.limit)
       IN  req' = [req EXCEPT ![c] =
                     IF Given(params.q) /\ ~PatternOk(params.q)
                     THEN [op |-> "list", pc |-> "done", params |-> params,
                           response |-> InternalError("OperationFailure")]
                     ELSE [op |-> "list", pc |-> "list_find", params |-> params,
                           page |-> page, limit |-> limit,
                           total |-> CountDocuments(product, params)]]
    /\ UNCHANGED <<product, order, payment, nextId, serverKey>>

\* find(filter_query).skip((page - 1) * limit).limit(limit), serialized
ListFind(c) ==
    /\ At(c, "list_find")
    /\ LET r == req[c]
           cursor == SkipLimit(FindAll(product, r.params), (r.page - 1) * r.limit, r.limit)
           items == [i \in 1..Len(cursor) |-> serialize(cursor[i])]
       IN  req' = [req EXCEPT ![c] =
                     [op |-> "list", pc |-> "done", params |-> r.params,
                      response |-> HttpOk([items |-> items, page |-> r.page,
                                           limit |-> r.limit, total |-> r.total])]]
    /\ UNCHANGED <<product, order, payment, nextId, serverKey, sent>>

\* get_product: oid(), find_one, 404 or the serialized document
GetProduct(c, product_id) ==
    /\ Admit(c)
    /\ req' = [req EXCEPT ![c] =
                 [op |-> "get", pc |-> "done", product_id |-> product_id,
                  response |->
                    IF ~oid_ok(product_id) THEN InvalidIdFormat
                    ELSE LET doc == FindOneById(product, oid(product_id))
                         IN  IF doc = <<>> THEN HttpError(404, <<"Product not found">>)
                             ELSE HttpOk(serialize(doc[1]))]]
    /\ UNCHANGED <<product, order, payment, nextId, serverKey>>

\* the response is delivered and the client is free to send again
Respond(c) ==
    /\ req[c].pc = "done"
    /\ req' = [req EXCEPT ![c] = Idle]
    /\ UNCHANGED <<product, order, payment, nextId, serverKey, sent>>

Next ==
    \E c \in Clients :
        \/ SeedCount(c)
        \/ SeedInsert(c)
        \/ Free(c) /\ \E payload \in CheckoutRequests : CheckoutBegin(c, payload)
        \/ CheckoutInsertOrder(c)
        \/ At(c, "gateway") /\ \E outcome \in GatewayOutcomes : CheckoutGateway(c, outcome)
        \/ CheckoutInsertPayment(c)
        \/ Free(c) /\ \E body \in WebhookBodies : WebhookBegin(c, body)
        \/ WebhookUpdatePayments(c)
        \/ Free(c) /\ \E params \in ListInputs : ListCount(c, params)
        \/ ListFind(c)
        \/ Free(c) /\ \E product_id \in ProductIdInputs : GetProduct(c, product_id)
        \/ Respond(c)

Spec == Init /\ [][Next]_vars

(***************************************************************************)
(* A database populated outside the API: a catalog with a fractional       *)
(* price, and an order that two payment documents reference.               *)
(***************************************************************************)
StoreProducts ==
    InsertDoc(InsertDoc(<<>>,
        ProductDoc("Archive Tee", None, Rp(150000) + 1, None, "tees", "Archive",
                   <<Variant("M", 1)>>, <<"archive">>), 1),
        demo_products[2], 2)

StoreOrders ==
    InsertDoc(<<>>,
        OrderDoc([name |-> "Budi", email |-> "budi@example.com", address |-> "Jl. Dago 5, Bandung",
                  shipping_method |-> "standard"],
                 <<OrderItem(InsertedId(1), StoreProducts[1], "M", 1, StoreProducts[1].price)>>,
                 StoreProducts[1].price), 3)

StorePayments ==
    InsertDoc(InsertDoc(<<>>, PaymentDoc(InsertedId(3), None, None, None), 4),
              PaymentDoc(InsertedId(3), "txn-0", None, "snap-token-0"), 5)

\* the database was populated outside the API, or is still empty
InitStore ==
    /\ \/ /\ product = StoreProducts
          /\ order = StoreOrders
          /\ payment = StorePayments
          /\ nextId = Len(StoreProducts) + Len(StoreOrders) + Len(StorePayments) + 1
       \/ /\ product = <<>>
          /\ order = <<>>
          /\ payment = <<>>
          /\ nextId = 1
    /\ serverKey \in ServerKeys
    /\ sent = 0
    /\ req = [c \in Clients |-> Idle]

SpecStore == InitStore /\ [][Next]_vars

(***************************************************************************)
(* The catalog routes alone, over a catalog populated outside the API: it  *)
(* holds a product that was taken off sale and one without a description.  *)
(***************************************************************************)
CatalogProducts ==
    InsertDoc(InsertDoc(InsertDoc(InsertDoc(InsertDoc(<<>>,
        StoreProducts[1], 1),
        demo_products[1], 2),
        SetFields(ProductDoc("Retired Tee", "Last season's tee.", Rp(99000), None, "tees", "AW24",
                             <<Variant("M", 0)>>, <<"tee">>), [is_active |-> FALSE]), 3),
        demo_products[2], 4),
        demo_products[3], 5)

InitCatalog ==
    /\ \/ product = CatalogProducts /\ nextId = Len(CatalogProducts) + 1
       \/ product = <<>> /\ nextId = 1
    /\ order = <<>>
    /\ payment = <<>>
    /\ serverKey \in ServerKeys
    /\ sent = 0
    /\ req = [c \in Clients |-> Idle]

NextCatalog ==
    \E c \in Clients :
        \/ Free(c) /\ \E params \in ListingQueries : ListCount(c, params)
        \/ ListFind(c)
        \/ Free(c) /\ \E product_id \in ProductIdInputs : GetProduct(c, product_id)
        \/ Respond(c)

SpecCatalog == InitCatalog /\ [][NextCatalog]_vars

(***************************************************************************)
(* Properties.                                                             *)
(***************************************************************************)
\* worker c holds the answer of a request of kind op
Returned(c, op) == req[c].pc = "done" /\ req[c].op = op

Succeeded(c) == req[c].response.status = 200

\* the stored order a successful checkout names in its response
OrderOf(order_id) == order[CHOOSE i \in 1..Len(order) : StrOfId(order[i]._id) = order_id]

\* the price stored on the product an identifier text denotes
StoredPrice(product_id) ==
    product[CHOOSE i \in 1..Len(product) : product[i]._id = ParseObjectId(product_id)].price

RECURSIVE LineSum(_)
LineSum(lines) ==
    IF lines = <<>> THEN 0
    ELSE Head(lines).price * Head(lines).quantity + LineSum(Tail(lines))

\* C1: every stored order's total_amount is the sum over its items of price x
\* quantity, each price being the one stored on the referenced product; the items
\* are the request's (product, quantity) lines and carry no client-supplied price;
\* the total_amount in the response is that sum truncated to an integer.
C1_TotalFromStoredPrices ==
    /\ \A i \in 1..Len(order) :
         /\ order[i].total_amount = LineSum(order[i].items)
         /\ \A k \in 1..Len(order[i].items) :
              order[i].items[k].price = StoredPrice(order[i].items[k].product_id)
    /\ \A c \in Clients :
         Returned(c, "checkout") /\ Succeeded(c) =>
           LET o == OrderOf(req[c].response.body.order_id)
               asked == req[c].payload.items
               answered == req[c].response.body.total_amount
           IN  /\ Len(o.items) = Len(asked)
               /\ \A k \in 1..Len(asked) :
                    /\ o.items[k].product_id = asked[k].product_id
                    /\ o.items[k].quantity = asked[k].quantity
               /\ answered * FracSteps <= o.total_amount
               /\ o.total_amount < (answered + 1) * FracSteps

\* a checkout of two different products, one of them twice, whose total is fractional
C1_Witness ==
    \E c \in Clients :
        /\ Returned(c, "checkout") /\ Succeeded(c)
        /\ LET o == OrderOf(req[c].response.body.order_id)
           IN  /\ Len(o.items) = 2
               /\ o.items[1].product_id # o.items[2].product_id
               /\ o.items[2].quantity = 2
               /\ o.total_amount % FracSteps # 0
               /\ req[c].response.body.total_amount = 150000 + 2 * 549000

\* the items whose product_id is well-formed and the identifier of no stored product
Unmatched(items) ==
    {k \in 1..Len(items) :
        /\ IsValidId(items[k].product_id)
        /\ \A i \in 1..Len(product) : product[i]._id # ParseObjectId(items[k].product_id)}

\* the items the lookup does not resolve: product_id is not the text of a stored identifier
Unresolved(items) ==
    {k \in 1..Len(items) : \A i \in 1..Len(product) : StrOfId(product[i]._id) # items[k].product_id}

First(S) == CHOOSE k \in S : \A j \in S : k <= j

\* a checkout that was answered with an error took one step and wrote nothing
FailedCheckoutWritesNothing ==
    \A c \in Clients :
        req[c].pc = "idle" /\ req'[c].pc = "done" /\ req'[c].op = "checkout" =>
          /\ req'[c].response.status # 200
          /\ UNCHANGED <<product, order, payment>>

\* C2 as stated: a checkout with an item whose product_id matches no stored product
\* is answered 400 "Product {id} not found" for such an item, and writes nothing.
C2_AsStated ==
    /\ [](\A c \in Clients :
            Returned(c, "checkout") /\ Unmatched(req[c].payload.items) # {} =>
              \E k \in Unmatched(req[c].payload.items) :
                  req[c].response = ProductNotFound(req[c].payload.items[k].product_id))
    /\ [][FailedCheckoutWritesNothing]_vars

\* C2 amended: such a checkout always fails and writes neither an Order nor a
\* Payment; the error is 400 "Invalid ID format" when some product_id is malformed,
\* else a validation failure (500) when an item before the first unresolved one has
\* quantity < 1, else 400 "Product {id} not found" naming the first item the lookup
\* does not resolve.
C2_UnknownProductFails ==
    /\ [](\A c \in Clients :
            Returned(c, "checkout") /\ Unmatched(req[c].payload.items) # {} =>
              LET items == req[c].payload.items
                  first == First(Unresolved(items))
              IN  /\ ~Succeeded(c)
                  /\ req[c].response =
                       IF \E k \in 1..Len(items) : ~IsValidId(items[k].product_id)
                       THEN InvalidIdFormat
                       ELSE IF \E j \in 1..(first - 1) : items[j].quantity < 1
                       THEN InternalError("ValidationError")
                       ELSE ProductNotFound(items[first].product_id))
    /\ [][FailedCheckoutWritesNothing]_vars

\* a stored product's item followed by an unknown one: answered for the unknown one
C2_Witness ==
    \E c \in Clients :
        /\ Returned(c, "checkout")
        /\ Len(product) > 0
        /\ Len(req[c].payload.items) = 2
        /\ Unmatched(req[c].payload.items) = {2}
        /\ Unresolved(req[c].payload.items) = {2}
        /\ req[c].payload.items[1].quantity = 1
        /\ req[c].response = ProductNotFound(UnknownId)
        /\ order = <<>> /\ payment = <<>>

\* the payments that reference an order
PaymentsOf(order_id) == {j \in 1..Len(payment) : payment[j].order_id = order_id}

\* a checkout stands between its Order insert and its Payment insert
CheckoutInFlight(order_id) ==
    \E c \in Clients : req[c].pc \in {"gateway", "insert_payment"} /\ req[c].order_id = order_id

\* C3: every order has exactly one payment from the moment its checkout returns
\* (none while the checkout is still between the two inserts, never two), whatever
\* the gateway step produced; a payment no webhook has touched has status "pending";
\* every payment references a stored order.
C3_OneInitialPayment ==
    /\ \A i \in 1..Len(order) :
         LET id == StrOfId(order[i]._id)
         IN  Cardinality(PaymentsOf(id)) = IF CheckoutInFlight(id) THEN 0 ELSE 1
    /\ \A j \in 1..Len(payment) :
         /\ "updated_at" \notin DOMAIN payment[j] => payment[j].status = "pending"
         /\ \E i \in 1..Len(order) : StrOfId(order[i]._id) = payment[j].order_id
    /\ \A c \in Clients :
         Returned(c, "checkout") /\ Succeeded(c) =>
           Cardinality(PaymentsOf(req[c].response.body.order_id)) = 1

\* two checkouts returned, the second after a gateway call that raised
C3_Witness ==
    /\ Len(order) = 2 /\ Len(payment) = 2
    /\ payment[1].order_id # payment[2].order_id
    /\ \E c \in Clients :
         /\ Returned(c, "checkout") /\ Succeeded(c)
         /\ req[c].reply.called /\ ~req[c].reply.ok
         /\ payment[2].order_id = req[c].response.body.order_id
         /\ payment[2].status = "pending"

\* C4 as stated: the product collection holds each demonstration product at most once.
C4_NoDuplicateSeedData ==
    \A k \in 1..Len(demo_products) :
        Cardinality({i \in 1..Len(product) : product[i].name = demo_products[k].name}) <= 1

\* no seed request is between its count and its last insert
NoSeedInFlight == \A c \in Clients : req[c].pc # "seed_insert"

\* the stored product with this identifier text, its identifier left out
StoredProduct(id) ==
    LET p == product[CHOOSE i \in 1..Len(product) : StrOfId(product[i]._id) = id]
    IN  [k \in DOMAIN p \ {"_id"} |-> p[k]]

\* C5: a seed request that found the collection empty answers "Seeded" with 3 distinct
\* identifiers, those of stored copies of the 3 demonstration products in order; a
\* seed request that finds a product answers "Already seeded" with the current count
\* and writes nothing; once a product exists and no seed request is in flight, no
\* request changes the product collection.
C5_SeedOnceThenNoop ==
    /\ [](\A c \in Clients :
            Returned(c, "seed") =>
              LET body == req[c].response.body
              IN  /\ Succeeded(c)
                  /\ \/ /\ body.message = "Seeded"
                        /\ body.count = 3
                        /\ Len(body.ids) = 3
                        /\ Cardinality({body.ids[k] : k \in 1..3}) = 3
                        /\ \A k \in 1..3 : StoredProduct(body.ids[k]) = demo_products[k]
                     \/ /\ body.message = "Already seeded"
                        /\ body.count = Len(product)
                        /\ body.count > 0)
    /\ [][\A c \in Clients :
            req[c].pc = "idle" /\ req'[c].pc # "idle" /\ req'[c].op = "seed" =>
              /\ UNCHANGED <<product, order, payment>>
              /\ IF Len(product) > 0
                 THEN /\ req'[c].pc = "done"
                      /\ req'[c].response.body =
                           [message |-> "Already seeded", count |-> Len(product)]
                 ELSE req'[c].pc = "seed_insert"]_vars
    /\ [][Len(product) > 0 /\ NoSeedInFlight => product' = product]_vars
    /\ [][Len(product) = 0 /\ NoSeedInFlight /\ product' # product =>
            product' = <<SetFields(demo_products[1], [_id |-> NewObjectId(nextId)])>>]_vars

\* a seed of the empty collection returned the identifiers of its three products
C5_Witness ==
    /\ Len(product) = 3
    /\ \E c \in Clients :
         /\ Returned(c, "seed")
         /\ req[c].response.body = [message |-> "Seeded", count |-> 3,
                                    ids |-> <<InsertedId(1), InsertedId(2), InsertedId(3)>>]
    /\ \A k \in 1..3 : StoredProduct(InsertedId(k)) = demo_products[k]

\* the table of the specification, and its default
StatusTable ==
    [settlement |-> "paid", capture |-> "paid", pending |-> "pending", deny |-> "failed",
     cancel |-> "canceled", expire |-> "failed", failure |-> "failed"]

Mapped(transaction_status) ==
    IF transaction_status \in DOMAIN StatusTable THEN StatusTable[transaction_status] ELSE "pending"

\* the body carries an order_id that is not empty
HasOrderId(obj) == "order_id" \in DOMAIN obj /\ obj.order_id # <<>>

\* C6: a webhook carrying the well-formed order_id of a stored Order takes the update
\* step, which sets that Order's payment_status to the table's value for the
\* transaction_status (the default "pending" for an absent or unknown one); every
\* Order's payment_status is one of pending, paid, failed, canceled.
C6_StatusMappingTotal ==
    /\ [](\A i \in 1..Len(order) : order[i].payment_status \in {"pending", "paid", "failed", "canceled"})
    /\ [][\A c \in Clients :
            req[c].pc = "idle" /\ req'[c].pc = "update_payments" =>
              LET obj == req'[c].body.obj
              IN  /\ Len(order') = Len(order)
                  /\ \A i \in 1..Len(order) :
                       order[i]._id = ParseObjectId(obj.order_id) =>
                         order'[i].payment_status = Mapped(DictGet(obj, "transaction_status"))]_vars
    /\ [][\A c \in Clients :
            /\ req[c].pc = "idle" /\ req'[c].pc = "done" /\ req'[c].op = "webhook"
            /\ req'[c].body.kind = "object"
            /\ HasOrderId(req'[c].body.obj)
            => ~IsValidId(req'[c].body.obj.order_id)]_vars

\* a webhook carrying "cancel" for a stored order just set that order to canceled
C6_Witness ==
    \E c \in Clients :
        /\ req[c].pc = "update_payments"
        /\ DictGet(req[c].body.obj, "transaction_status") = "cancel"
        /\ \E i \in 1..Len(order) :
             /\ StrOfId(order[i]._id) = req[c].body.obj.order_id
             /\ order[i].payment_status = "canceled"

\* C7 as stated: every stored Payment's status is one of the six schema values.
C7_PaymentStatusInSchema ==
    \A j \in 1..Len(payment) : payment[j].status \in PaymentStatuses

Acknowledged(c) == Succeeded(c) /\ req[c].response.body = [received |-> TRUE]

\* C8 as stated: every webhook whose body is a JSON object is acknowledged, whatever
\* order_id and transaction_status it carries or omits; a body that is not JSON fails.
C8_AsStated ==
    \A c \in Clients :
        Returned(c, "webhook") =>
          /\ req[c].body.kind = "object" => Acknowledged(c)
          /\ req[c].body.kind = "invalid" => ~Succeeded(c)

\* a webhook that is answered with an error wrote nothing
FailedWebhookWritesNothing ==
    \A c \in Clients :
        req'[c].pc = "done" /\ req'[c].op = "webhook" /\ req[c].pc # "done"
        /\ req'[c].response.status # 200
        => UNCHANGED <<product, order, payment>>

\* C8 amended: a webhook whose body is a JSON object is acknowledged whenever its
\* order_id is absent, empty or a well-formed identifier (of a stored Order or of
\* none), whatever transaction_status it carries or omits; it fails with 400 "Invalid
\* ID format", writing nothing, when the order_id is present, not empty and not a
\* well-formed identifier; a body that is not JSON, or not a JSON object, fails.
C8_WebhookAcknowledges ==
    /\ [](\A c \in Clients :
            Returned(c, "webhook") =>
              IF req[c].body.kind # "object" THEN ~Succeeded(c)
              ELSE IF HasOrderId(req[c].body.obj) /\ ~IsValidId(req[c].body.obj.order_id)
              THEN req[c].response = InvalidIdFormat
              ELSE Acknowledged(c))
    /\ [][FailedWebhookWritesNothing]_vars

\* acknowledged: an unrecognized status for a well-formed order_id of no stored Order
C8_Witness ==
    \E c \in Clients :
        /\ Returned(c, "webhook")
        /\ req[c].body = [kind |-> "object",
                          obj |-> [order_id |-> UnknownId, transaction_status |-> "refund"]]
        /\ Acknowledged(c)
        /\ Len(order) = 1

\* C9: the update step of a webhook carrying order_id X gives every Payment whose
\* order_id is the text X the webhook's transaction_status and leaves every other
\* Payment as it was; a webhook returns without that step only when no Payment
\* carries its order_id.
C9_UpdatesEveryPaymentOfOrder ==
    /\ [][\A c \in Clients :
            req[c].pc = "update_payments" /\ req'[c].pc = "done" =>
              LET obj == req[c].body.obj
              IN  /\ Len(payment') = Len(payment)
                  /\ \A j \in 1..Len(payment) :
                       IF payment[j].order_id = obj.order_id
                       THEN /\ payment'[j].status = DictGet(obj, "transaction_status")
                            /\ payment'[j].order_id = obj.order_id
                            /\ payment'[j]._id = payment[j]._id
                       ELSE payment'[j] = payment[j]]_vars
    /\ [][\A c \in Clients :
            /\ req[c].pc = "idle" /\ req'[c].pc = "done" /\ req'[c].op = "webhook"
            /\ req'[c].body.kind = "object"
            /\ "order_id" \in DOMAIN req'[c].body.obj
            => PaymentsOf(req'[c].body.obj.order_id) = {}]_vars

\* both payments of the stored order were settled together, a third one left alone
C9_Witness ==
    /\ Len(payment) = 3
    /\ payment[1].order_id = payment[2].order_id
    /\ payment[1].status = "settlement" /\ payment[2].status = "settlement"
    /\ payment[3].order_id # payment[1].order_id
    /\ payment[3].status = "pending"
    /\ \E c \in Clients : Returned(c, "webhook") /\ Acknowledged(c)

\* C10: the gateway is called only with a server key set; a checkout that reached the
\* gateway step returns successfully; when the call was skipped or raised, the Order
\* and its one Payment are stored and the redirect URL and the session token are
\* empty in that Payment and in the response.
C10_GatewayNeverFailsCheckout ==
    \A c \in Clients :
        /\ req[c].pc = "gateway" => serverKey # ""
        /\ "reply" \in DOMAIN req[c] =>
             /\ req[c].reply.called => serverKey # ""
             /\ ~req[c].reply.called => serverKey = ""
        /\ Returned(c, "checkout") /\ "reply" \in DOMAIN req[c] =>
             /\ Succeeded(c)
             /\ \E i \in 1..Len(order) : StrOfId(order[i]._id) = req[c].response.body.order_id
             /\ (~req[c].reply.called \/ ~req[c].reply.ok) =>
                  /\ req[c].response.body.payment.redirect_url = None
                  /\ req[c].response.body.payment.snap_token = None
                  /\ Cardinality(PaymentsOf(req[c].response.body.order_id)) = 1
                  /\ \A j \in PaymentsOf(req[c].response.body.order_id) :
                       /\ payment[j].redirect_url = None
                       /\ payment[j].snap_token = None

\* a checkout returned after a gateway call that raised, with no payment link
C10_Witness ==
    \E c \in Clients :
        /\ Returned(c, "checkout") /\ Succeeded(c)
        /\ req[c].reply = [called |-> TRUE, ok |-> FALSE]
        /\ req[c].response.body.payment = [provider |-> "midtrans", redirect_url |-> None,
                                           snap_token |-> None]
        /\ Len(order) = 1 /\ Len(payment) = 1

\* the identifier texts a request submits for resolution
SubmittedIds(r) ==
    IF r.op = "get" THEN {r.product_id}
    ELSE IF r.op = "checkout" THEN {r.payload.items[k].product_id : k \in 1..Len(r.payload.items)}
    ELSE IF r.op = "webhook" /\ r.body.kind = "object" /\ "order_id" \in DOMAIN r.body.obj
    THEN {r.body.obj.order_id}
    ELSE {}

\* C11 as stated: a get-by-id, checkout or webhook request that submits an identifier
\* which is not a well-formed 24-character hexadecimal text is answered 400 "Invalid
\* ID format".
C11_AsStated ==
    \A c \in Clients :
        req[c].pc = "done" /\ (\E id \in SubmittedIds(req[c]) : ~IsValidId(id)) =>
          req[c].response = InvalidIdFormat

\* the identifier texts that must parse: an empty webhook order_id counts as absent
ParsedIds(r) == IF r.op = "webhook" THEN SubmittedIds(r) \ {<<>>} ELSE SubmittedIds(r)

\* C11 amended: a get-by-id request, a checkout request, and a webhook whose
\* order_id is present and not empty, are answered 400 "Invalid ID format" when
\* such an identifier is malformed, whatever the other items name and whatever is
\* stored; the request is answered in its first step, in which no collection
\* changes.  A webhook whose order_id is the empty text is acknowledged instead.
C11_MalformedIdRejectedFirst ==
    /\ [](\A c \in Clients :
            req[c].pc = "done" /\ (\E id \in ParsedIds(req[c]) : ~IsValidId(id)) =>
              req[c].response = InvalidIdFormat)
    /\ [][\A c \in Clients :
            req[c].pc = "idle" /\ req'[c].pc # "idle"
            /\ (\E id \in ParsedIds(req'[c]) : ~IsValidId(id))
            => /\ req'[c].pc = "done"
               /\ UNCHANGED <<product, order, payment, nextId>>]_vars
    /\ [](\A c \in Clients :
            Returned(c, "webhook") /\ SubmittedIds(req[c]) = {<<>>} => Acknowledged(c))

\* a checkout naming an unknown product first and a malformed identifier second is
\* answered for the malformed one, with products stored and nothing created
C11_Witness ==
    \E c \in Clients :
        /\ Returned(c, "checkout")
        /\ Len(product) > 0
        /\ Len(req[c].payload.items) = 2
        /\ req[c].payload.items[1].product_id = UnknownId
        /\ req[c].payload.items[2].product_id = BadId
        /\ req[c].response = InvalidIdFormat
        /\ order = <<>> /\ payment = <<>>


\* C12: a listing is never failed for its page or limit: without a search text it
\* succeeds for every page and limit; a successful listing reports as page the
\* submitted page if that is >= 1 and 1 otherwise, and as limit the submitted limit
\* if that lies in [1, 100] and 12 otherwise.
C12_PaginationNormalised ==
    \A c \in Clients :
        Returned(c, "list") =>
          LET sub == req[c].params
          IN  /\ sub.q \in {None, ""} => Succeeded(c)
              /\ Succeeded(c) =>
                   /\ req[c].response.body.page = IF sub.page >= 1 THEN sub.page ELSE 1
                   /\ req[c].response.body.limit =
                        IF 1 <= sub.limit /\ sub.limit <= 100 THEN sub.limit ELSE 12

\* page -3 with limit 150 was answered as page 1 with limit 12, and page 2 with
\* limit 50 is answered unchanged
C12_Witness ==
    \E c, d \in Clients :
        /\ Returned(c, "list") /\ Succeeded(c)
        /\ req[c].params.page = 2 /\ req[c].params.limit = 50
        /\ req[c].response.body.page = 2 /\ req[c].response.body.limit = 50
        /\ req[d].pc = "list_find"
        /\ req[d].params.page = -3 /\ req[d].params.limit = 150
        /\ req[d].page = 1 /\ req[d].limit = 12

\* the text contains the search text, letters compared without regard to case
ContainsText(text, q) ==
    /\ text # None
    /\ \E i \in 1..(Len(text) - Len(q) + 1) :
           \A k \in 1..Len(q) : Fold(CharAt(q, k)) = Fold(CharAt(text, i + k - 1))

\* the product is on sale and satisfies every filter the listing supplies
Satisfies(doc, sub) ==
    /\ doc.is_active = TRUE
    /\ Given(sub.q) =>
         \/ ContainsText(doc.name, sub.q)
         \/ ContainsText(doc.description, sub.q)
         \/ \E t \in 1..Len(doc.tags) : ContainsText(doc.tags[t], sub.q)
    /\ Given(sub.category) => doc.category = sub.category
    /\ Given(sub.collection) => doc.collection = sub.collection
    /\ Given(sub.size) => \E v \in 1..Len(doc.variants) : doc.variants[v].size = sub.size

\* C13 as stated: every listing returns, as items, the products that are active and
\* satisfy all supplied filters (q as a case-insensitive substring of name,
\* description or a tag), from offset (page - 1) * limit on, at most limit of them,
\* in storage order, and as total the number of all such products.
C13_AsStated ==
    \A c \in Clients :
        Returned(c, "list") =>
          /\ Succeeded(c)
          /\ LET sub == req[c].params
                 body == req[c].response.body
                 matching == SelectSeq(product, LAMBDA doc : Satisfies(doc, sub))
                 offset == (body.page - 1) * body.limit
                 rest == IF Len(matching) > offset THEN Len(matching) - offset ELSE 0
             IN  /\ body.total = Len(matching)
                 /\ Len(body.items) = IF rest < body.limit THEN rest ELSE body.limit
                 /\ \A j \in 1..Len(body.items) :
                      /\ body.items[j].id = StrOfId(matching[offset + j]._id)
                      /\ \A f \in DOMAIN matching[offset + j] \ {"_id"} :
                           body.items[j][f] = matching[offset + j][f]

\* C14: a step changes the product collection only by appending one demonstration
\* product, and only as the insert step of a seed request, which began when the
\* collection was empty; every stored Product document, its variants' stock
\* included, stays as it is in every step of a checkout, webhook, listing or
\* get-by-id request, and no document is ever removed.
C14_ProductsOnlySeeded ==
    /\ [][product' # product =>
            /\ Len(product') = Len(product) + 1
            /\ SubSeq(product', 1, Len(product)) = product
            /\ \E k \in 1..Len(demo_products) :
                   \A f \in DOMAIN demo_products[k] :
                       product'[Len(product')][f] = demo_products[k][f]
            /\ \E c \in Clients :
                   /\ req[c].pc = "seed_insert"
                   /\ req'[c] # req[c]
                   /\ \A d \in Clients \ {c} : req'[d] = req[d]]_vars
    /\ [][\A c \in Clients :
            req[c].pc = "idle" /\ req'[c].pc = "seed_insert" => product = <<>>]_vars
    /\ [][\A c \in Clients :
            req'[c] # req[c] /\ req[c].pc \notin {"idle", "done", "seed_insert"}
            => product' = product]_vars

\* a checkout of the first seeded product, variant M, returned and the product is
\* stored as seeded, 20 pieces of M in stock
C14_Witness ==
    \E c \in Clients :
        /\ Returned(c, "checkout") /\ Succeeded(c)
        /\ Len(order) = 1
        /\ Len(order[1].items) = 1
        /\ order[1].items[1].product_id = InsertedId(1)
        /\ order[1].items[1].size = "M"
        /\ product = SeededProducts
        /\ product[1].variants[2] = Variant("M", 20)

\* the document after differs from the document before in the named fields at most
SameExcept(after, before, fields) ==
    /\ DOMAIN before \subseteq DOMAIN after
    /\ DOMAIN after \subseteq DOMAIN before \cup fields
    /\ \A f \in DOMAIN before \ fields : after[f] = before[f]

\* client c takes a step of a webhook request
WebhookStep(c) ==
    /\ req'[c] # req[c]
    /\ \/ req[c].pc = "idle" /\ req'[c].op = "webhook"
       \/ req[c].pc = "update_payments"

\* the order_id text of the webhook client c is handling after the step, <<>> if none
SubmittedOrderId(r) ==
    IF r.body.kind = "object" /\ "order_id" \in DOMAIN r.body.obj THEN r.body.obj.order_id ELSE <<>>

\* C15: a step of a webhook request leaves the product collection and the number
\* and order of Orders and Payments as they are; it changes an Order only if the
\* Order's identifier is the one the submitted order_id spells, and then at most its
\* payment_status and updated_at; it changes a Payment only if the Payment's
\* order_id is the submitted text, and then at most its status and updated_at; a
\* webhook without an order_id, or with a well-formed order_id of no stored Order,
\* is acknowledged and changes nothing; no step of any request removes an Order.
C15_WebhookFrame ==
    /\ [][\A c \in Clients :
            WebhookStep(c) =>
              LET r == IF req[c].pc = "idle" THEN req'[c] ELSE req[c]
                  text == SubmittedOrderId(r)
              IN  /\ product' = product /\ nextId' = nextId
                  /\ Len(order') = Len(order) /\ Len(payment') = Len(payment)
                  /\ \A i \in 1..Len(order) :
                       IF IsValidId(text) /\ order[i]._id = ParseObjectId(text)
                       THEN SameExcept(order'[i], order[i], {"payment_status", "updated_at"})
                       ELSE order'[i] = order[i]
                  /\ \A j \in 1..Len(payment) :
                       IF text # <<>> /\ payment[j].order_id = text
                       THEN SameExcept(payment'[j], payment[j], {"status", "updated_at"})
                       ELSE payment'[j] = payment[j]]_vars
    /\ [](\A c \in Clients :
            /\ Returned(c, "webhook") /\ req[c].body.kind = "object"
            /\ \/ "order_id" \notin DOMAIN req[c].body.obj
               \/ /\ IsValidId(req[c].body.obj.order_id)
                  /\ \A i \in 1..Len(order) : order[i]._id # ParseObjectId(req[c].body.obj.order_id)
            => Acknowledged(c))
    /\ [][/\ Len(order') >= Len(order)
          /\ \A i \in 1..Len(order) : order'[i]._id = order[i]._id]_vars

\* the stored order was set to paid and its two payments to settlement, their other
\* fields as before, while a second order and its payment were left alone
C15_Witness ==
    /\ Len(order) = 2 /\ Len(payment) = 3
    /\ \E c \in Clients : Returned(c, "webhook") /\ Acknowledged(c)
    /\ order[1].payment_status = "paid"
    /\ SameExcept(order[1], StoreOrders[1], {"payment_status", "updated_at"})
    /\ payment[2].status = "settlement"
    /\ SameExcept(payment[2], StorePayments[2], {"status", "updated_at"})
    /\ payment[2].snap_token = "snap-token-0"
    /\ "updated_at" \notin DOMAIN order[2]
    /\ "updated_at" \notin DOMAIN payment[3]

\* client c takes a step of a checkout request that stood at step pc
CheckoutStep(c, pc) ==
    /\ req'[c] # req[c]
    /\ req[c].pc = pc
    /\ pc = "idle" => req'[c].op = "checkout"

\* the gateway's answer as the Payment is to record it
Produced(reply) ==
    IF reply.called /\ reply.ok
    THEN [snap_token |-> DictGet(reply.data, "token"),
          redirect_url |-> DictGet(reply.data, "redirect_url"),
          transaction_id |-> IF "transaction_id" \in DOMAIN reply.data
                             THEN reply.data.transaction_id
                             ELSE DictGet(reply.data, "token")]
    ELSE [snap_token |-> None, redirect_url |-> None, transaction_id |-> None]

\* C16: a checkout request first resolves products and computes the total, writing
\* nothing; its second step inserts the Order with those items and that total; then
\* follows the gateway step, exactly when a server key is set and taken once; then
\* the Payment insert, which ends the request.  While a request stands at the gateway
\* step or at the Payment insert its Order is stored, and the Payment inserted
\* carries the redirect_url, token and transaction_id of that one gateway answer
\* (transaction_id falling back to the token), all empty without a call or answer.
C16_CheckoutStepOrder ==
    /\ [][\A c \in Clients :
            /\ CheckoutStep(c, "idle") =>
                 /\ req'[c].pc \in {"insert_order", "done"}
                 /\ UNCHANGED <<order, payment>>
            /\ CheckoutStep(c, "insert_order") =>
                 /\ req'[c].pc = IF serverKey # "" THEN "gateway" ELSE "insert_payment"
                 /\ Len(order') = Len(order) + 1
                 /\ StrOfId(order'[Len(order')]._id) = req'[c].order_id
                 /\ order'[Len(order')].items = req[c].order_items
                 /\ order'[Len(order')].total_amount = req[c].computed_total
                 /\ payment' = payment
            /\ CheckoutStep(c, "gateway") =>
                 /\ req'[c].pc = "insert_payment"
                 /\ req'[c].reply.called
                 /\ UNCHANGED <<order, payment>>
            /\ CheckoutStep(c, "insert_payment") =>
                 /\ req'[c].pc = "done"
                 /\ order' = order
                 /\ Len(payment') = Len(payment) + 1
                 /\ SubSeq(payment', 1, Len(payment)) = payment
                 /\ LET p == payment'[Len(payment')]
                        made == Produced(req[c].reply)
                    IN  /\ p.order_id = req[c].order_id
                        /\ p.redirect_url = made.redirect_url
                        /\ p.snap_token = made.snap_token
                        /\ p.transaction_id = made.transaction_id]_vars
    /\ [](\A c \in Clients :
            req[c].pc \in {"gateway", "insert_payment"} =>
              /\ \E i \in 1..Len(order) : StrOfId(order[i]._id) = req[c].order_id
              /\ PaymentsOf(req[c].order_id) = {}
              /\ req[c].pc = "gateway" => serverKey # "")

\* the gateway answered with a token and no transaction_id: the checkout returned
\* and its Payment carries the token as transaction_id
C16_Witness ==
    \E c \in Clients :
        /\ Returned(c, "checkout") /\ Succeeded(c)
        /\ req[c].reply = [called |-> TRUE, ok |-> TRUE,
                           data |-> [k \in {"token", "redirect_url"} |-> GatewayValue[k]]]
        /\ Len(order) = 1 /\ Len(payment) = 1
        /\ payment[1].order_id = StrOfId(order[1]._id)
        /\ payment[1].snap_token = "snap-token"
        /\ payment[1].transaction_id = "snap-token"
        /\ payment[1].redirect_url = GatewayValue.redirect_url

\* C17: when a webhook is processed in a state in which the Order its order_id
\* denotes already has the payment_status its transaction_status maps to, its Order
\* update leaves every Order's payment_status as it is; when every Payment carrying
\* its order_id already has its transaction_status as status, its Payment update
\* leaves every Payment's status as it is.  These are the states the same webhook
\* leaves behind, so processing it a second time changes no status.
C17_WebhookIdempotent ==
    /\ [][\A c \in Clients :
            req[c].pc = "idle" /\ req'[c].pc = "update_payments" =>
              LET obj == req'[c].body.obj
                  new_status == Mapped(DictGet(obj, "transaction_status"))
              IN  (\A i \in 1..Len(order) :
                       order[i]._id = ParseObjectId(obj.order_id) =>
                         order[i].payment_status = new_status)
                  => /\ Len(order') = Len(order)
                     /\ \A i \in 1..Len(order) : order'[i].payment_status = order[i].payment_status]_vars
    /\ [][\A c \in Clients :
            req[c].pc = "update_payments" /\ req'[c].pc = "done" =>
              LET obj == req[c].body.obj
                  status == DictGet(obj, "transaction_status")
              IN  (\A j \in 1..Len(payment) :
                       payment[j].order_id = obj.order_id => payment[j].status = status)
                  => /\ Len(payment') = Len(payment)
                     /\ \A j \in 1..Len(payment) : payment'[j].status = payment[j].status]_vars

\* the webhook "settlement" for the stored order is being processed a second time:
\* the first processing set both payments before the second one arrived, and the
\* second one has updated the order, which is paid as before
C17_Witness ==
    \E c \in Clients :
        /\ req[c].pc = "update_payments"
        /\ req[c].body.obj = [order_id |-> InsertedId(3), transaction_status |-> "settlement"]
        /\ order[1].payment_status = "paid"
        /\ order[1].updated_at = 1
        /\ payment[1].status = "settlement" /\ payment[1].updated_at = 1
        /\ payment[2].status = "settlement" /\ payment[2].updated_at = 1

\* no checkout and no webhook request is between its first and its last step
Quiescent == \A c \in Clients : req[c].pc \in {"idle", "done", "seed_insert", "list_find"}

\* C18 as stated: whenever no checkout or webhook request is in progress, every
\* Order's payment_status is the webhook mapping of the status of every Payment
\* that references the Order.
C18_StatusesConsistent ==
    Quiescent =>
      \A i \in 1..Len(order) :
          \A j \in PaymentsOf(StrOfId(order[i]._id)) :
              order[i].payment_status = Mapped(payment[j].status)

\* C19 as stated: a checkout whose items all have quantity >= 1 and a well-formed
\* product_id that parses to the identifier of a stored Product succeeds, however
\* the identifiers are spelled and however often a product is named; a checkout is
\* answered "Product {id} not found" only when some item's parsed identifier is the
\* identifier of no stored Product.
C19_ResolvesParsedIds ==
    \A c \in Clients :
        Returned(c, "checkout") =>
          LET items == req[c].payload.items
          IN  /\ ( /\ \A k \in 1..Len(items) :
                         IsValidId(items[k].product_id) /\ items[k].quantity >= 1
                   /\ Unmatched(items) = {} )
                 => Succeeded(c)
              /\ (\E k \in 1..Len(items) : req[c].response = ProductNotFound(items[k].product_id))
                 => Unmatched(items) # {}

\* C20 as stated: every stored Order has at least one item and every item of it a
\* quantity of at least 1, and a checkout request whose items list is empty or holds
\* an item of quantity 0 or less is not answered with success.
C20_NonEmptyPositiveItems ==
    /\ \A i \in 1..Len(order) :
         /\ Len(order[i].items) >= 1
         /\ \A k \in 1..Len(order[i].items) : order[i].items[k].quantity >= 1
    /\ \A c \in Clients :
         /\ Returned(c, "checkout")
         /\ \/ req[c].payload.items = <<>>
            \/ \E k \in 1..Len(req[c].payload.items) : req[c].payload.items[k].quantity < 1
         => ~Succeeded(c)

====
